---- MODULE Spec2Model ----
(***************************************************************************)
(* Model of the stealth HTTP session (core/session.py), its proxy pool and *)
(* the Job-Room provider facade (providers/job_room/client.py) together    *)
(* with the REST error mapping of api/routes/jobs.py.                      *)
(*                                                                         *)
(* The facade's pure helpers (the search payload builder, the response     *)
(* transformer) are operators; `input` is the argument one of them is      *)
(* called with and `output` what the call left behind.                     *)
(*                                                                         *)
(* The program is asyncio code: a task runs without interruption until it  *)
(* awaits real I/O.  `running` is the task that currently owns the event   *)
(* loop (0: the loop is free); `stack[t]` is the chain of coroutine frames *)
(* of task t, innermost first, and `ret[t]` the value or exception that    *)
(* the innermost finished coroutine hands to its caller.                   *)
(***************************************************************************)
EXTENDS Integers, Sequences, FiniteSets, TLC

VARIABLES mode, pool, now, got, sess, transports, facade, stack, ret,
          running, last, bootstraps, ncalls, upstream, input, output

vars == <<mode, pool, now, got, sess, transports, facade, stack, ret,
          running, last, bootstraps, ncalls, upstream, input, output>>

poolVars == <<pool, now, got>>
envVars == <<mode, upstream>>
callVars == <<input, output>>
fixedVars == <<envVars, callVars>>
progVars == <<sess, transports, facade, stack, ret, running, last, bootstraps,
              ncalls>>

(***************************************************************************)
(* Bounds                                                                  *)
(***************************************************************************)
NTasks == 2
MaxTransports == 3
MaxSessions == 2
MaxTime == 3
MaxPool == 2
MaxCalls == 2

Tasks == 1..NTasks

(***************************************************************************)
(* Values                                                                  *)
(***************************************************************************)
None == "None"
NoneInt == -1

Modes == {"fast", "stealth", "aggressive"}

ProxyNames == {"p1", "p2"}

RECURSIVE SeqsUpTo(_, _)
SeqsUpTo(S, n) ==
  IF n = 0 THEN {<<>>}
  ELSE LET shorter == SeqsUpTo(S, n - 1)
       IN shorter \cup {Append(s, x) : s \in shorter, x \in S}

Range(s) == {s[i] : i \in 1..Len(s)}

(***************************************************************************)
(* ProxyPool (core/session.py).  cooldown maps a proxy to its              *)
(* cooldown-until timestamp; NoneInt stands for "no entry in the dict".    *)
(***************************************************************************)
NoPool == [present |-> FALSE, proxies |-> <<>>, current_index |-> 0,
           cooldown |-> [q \in ProxyNames |-> NoneInt]]

ProxyPool(proxies) == [present |-> TRUE, proxies |-> proxies,
                       current_index |-> 0,
                       cooldown |-> [q \in ProxyNames |-> NoneInt]]

\* `proxy not in self.cooldown or self.cooldown[proxy] < now`
Available(p, proxy, t) ==
  p.cooldown[proxy] = NoneInt \/ p.cooldown[proxy] < t

\* The advance of the cursor after a proxy has been read.
AdvanceIndexNoWrap(idx, n) == idx + 1
AdvanceIndex(idx, n) == (idx + 1) % n

\* What get_proxy returns once the loop found every proxy cooling down.
FallbackProxyNone(p) == None
FallbackProxy(p) == p.proxies[1]

RECURSIVE get_proxy_loop(_, _, _, _)
get_proxy_loop(p, idx, t, remaining) ==
  IF remaining = 0
  THEN [raised |-> FALSE, proxy |-> FallbackProxy(p), current_index |-> idx]
  ELSE IF idx < 0 \/ idx >= Len(p.proxies)
  THEN [raised |-> TRUE, proxy |-> None, current_index |-> idx]
  ELSE LET proxy == p.proxies[idx + 1]
           nxt   == AdvanceIndex(idx, Len(p.proxies))
       IN IF Available(p, proxy, t)
          THEN [raised |-> FALSE, proxy |-> proxy, current_index |-> nxt]
          ELSE get_proxy_loop(p, nxt, t, remaining - 1)

get_proxy_from_first(p, t) ==
  IF p.proxies = <<>>
  THEN [raised |-> FALSE, proxy |-> None, current_index |-> p.current_index]
  ELSE get_proxy_loop(p, 0, t, Len(p.proxies))

get_proxy(p, t) ==
  IF p.proxies = <<>>
  THEN [raised |-> FALSE, proxy |-> None, current_index |-> p.current_index]
  ELSE get_proxy_loop(p, p.current_index, t, Len(p.proxies))

mark_failed(p, proxy, t, cooldown_seconds) ==
  [p EXCEPT !.cooldown[proxy] = t + cooldown_seconds]

\* cooldown_seconds arguments tried by the pool's callers (time unit: one tick)
CooldownSeconds == {1, 2}

\* Every proxy of the pool is in an unexpired cooldown at time t.
AllCooling(p, t) ==
  /\ p.proxies # <<>>
  /\ \A i \in 1..Len(p.proxies) : ~Available(p, p.proxies[i], t)

\* What the latest get_proxy call saw and returned; `run` holds the proxies
\* returned by the first len(proxies) calls on the pool.
NoGot == [called |-> FALSE, raised |-> FALSE, proxy |-> None,
          all_cooling |-> FALSE, index_before |-> 0,
          cooldown_before |-> [q \in ProxyNames |-> NoneInt], time |-> 0,
          run |-> <<>>]

(***************************************************************************)
(* Exceptions.  An outcome is what a call hands to its caller: type "ok"   *)
(* is a normal return, anything else the class of the raised exception.    *)
(***************************************************************************)
Outcome(type, status, retry_after, value) ==
  [type |-> type, status |-> status, retry_after |-> retry_after,
   value |-> value, provider |-> None, cause |-> None, cause_status |-> 0,
   cause_retry_after |-> NoneInt]

Ok(status, value) == Outcome("ok", status, NoneInt, value)
Raise(type) == Outcome(type, 0, NoneInt, None)
NoRet == Outcome("none", 0, NoneInt, None)

IsExc(out) == out.type \notin {"ok", "none"}

\* `raise ProviderError(self.name, ...) from e`
ProviderError(provider, e) ==
  [Outcome("ProviderError", 0, NoneInt, None) EXCEPT
     !.provider = provider, !.cause = e.type, !.cause_status = e.status,
     !.cause_retry_after = e.retry_after]

\* The direct base class of each httpx exception class the session names.
HttpxBase(cls) ==
  CASE cls = "httpx.ConnectError"     -> "httpx.NetworkError"
    [] cls = "httpx.NetworkError"     -> "httpx.TransportError"
    [] cls = "httpx.ReadTimeout"      -> "httpx.TimeoutException"
    [] cls = "httpx.TimeoutException" -> "httpx.TransportError"
    [] cls = "httpx.TransportError"   -> "httpx.RequestError"
    [] cls = "httpx.RequestError"     -> "httpx.HTTPError"
    [] cls = "httpx.HTTPStatusError"  -> "httpx.HTTPError"
    [] OTHER                          -> "Exception"

\* The direct base class of each class of the scraper's error taxonomy
\* (core/exceptions.py).
ScraperBase(cls) ==
  CASE cls = "NetworkError"           -> "ScraperError"
    [] cls = "ProviderError"          -> "ScraperError"
    [] cls = "RateLimitError"         -> "ProviderError"
    [] cls = "AuthenticationError"    -> "ProviderError"
    [] cls = "ResponseParseError"     -> "ProviderError"
    [] cls = "LocationNotFoundError"  -> "ScraperError"
    [] OTHER                          -> "Exception"

Base(cls) ==
  IF HttpxBase(cls) # "Exception" THEN HttpxBase(cls) ELSE ScraperBase(cls)

RECURSIVE IsInstance(_, _)
IsInstance(cls, of) ==
  IF cls \in {"ok", "none"} THEN FALSE
  ELSE IF cls = of THEN TRUE
  ELSE IF cls = "Exception" THEN FALSE
  ELSE IsInstance(Base(cls), of)

(***************************************************************************)
(* HTTP responses as the transport delivers them.  status 0 is "no         *)
(* response": the transport raised `error`.                                *)
(***************************************************************************)
Statuses == {200, 204, 304, 401, 403, 404, 429, 500}

NoHeader == [present |-> FALSE, value |-> <<>>]
Header(v) == [present |-> TRUE, value |-> v]

\* Retry-After values: empty, delta-seconds, and a non-numeric one (an
\* HTTP-date starts with a letter).
RetryAfterHeaders ==
  {NoHeader, Header(<<>>), Header(<<"7">>), Header(<<"3", "0">>),
   Header(<<"x">>)}

Tokens == {"t1", "t2"}
Cookies == {None, ""} \cup Tokens

Response(status, retry_after, cookie) ==
  [status |-> status, error |-> None, retry_after |-> retry_after,
   cookie |-> cookie]

TransportFailure(error) ==
  [status |-> 0, error |-> error, retry_after |-> NoHeader, cookie |-> None]

NoResponse == [status |-> -1, error |-> None, retry_after |-> NoHeader,
               cookie |-> None]

\* What the upstream may answer to a get()/post() and to the GET of
\* refresh_csrf_token: a response or a transport failure.
Upstream(statuses, headers, cookies, errors) ==
  [request |->
     {Response(s, NoHeader, None) : s \in statuses \ {429}}
       \cup {Response(429, h, None) : h \in headers}
       \cup {TransportFailure(e) : e \in errors},
   refresh |->
     {Response(s, NoHeader, None) : s \in statuses}
       \cup {Response(200, NoHeader, c) : c \in cookies}
       \cup {TransportFailure(e) : e \in errors}]

TransportErrors == {"httpx.ConnectError", "httpx.ReadTimeout"}

FullUpstream ==
  Upstream(Statuses, RetryAfterHeaders, Cookies, TransportErrors)

\* The answers tried against the facade: one status of each class.
FacadeUpstream ==
  Upstream({200, 401, 429, 500}, {NoHeader, Header(<<"7">>)}, {None, "t1"},
           {"httpx.ConnectError"})

\* Python's int() on a string of the header alphabet.
IsDigit(c) == c \in {"0", "1", "2", "3", "4", "5", "6", "7", "8", "9"}

DigitValue(c) ==
  CASE c = "0" -> 0 [] c = "1" -> 1 [] c = "2" -> 2 [] c = "3" -> 3
    [] c = "4" -> 4 [] c = "5" -> 5 [] c = "6" -> 6 [] c = "7" -> 7
    [] c = "8" -> 8 [] c = "9" -> 9

RECURSIVE DecimalValue(_)
DecimalValue(str) ==
  IF str = <<>> THEN 0
  ELSE 10 * DecimalValue(SubSeq(str, 1, Len(str) - 1))
         + DigitValue(str[Len(str)])

py_int(str) ==
  IF str # <<>> /\ \A i \in 1..Len(str) : IsDigit(str[i])
  THEN [ok |-> TRUE, value |-> DecimalValue(str)]
  ELSE [ok |-> FALSE, value |-> NoneInt]

\* httpx.Response.raise_for_status: any status that is not 2xx raises.
raise_for_status(response) ==
  IF response.status >= 200 /\ response.status < 300
  THEN Ok(response.status, None)
  ELSE Outcome("httpx.HTTPStatusError", response.status, NoneInt, None)

\* `response.status_code in (401, 403)`
IsAuthStatus(status) == status \in {401, 403}

_handle_response_errors(response) ==
  IF response.status = 429
  THEN LET retry_after == response.retry_after
       IN IF retry_after.present /\ retry_after.value # <<>>
          THEN LET n == py_int(retry_after.value)
               IN IF n.ok
                  THEN Outcome("RateLimitError", 0, n.value, None)
                  ELSE Raise("ValueError")
          ELSE Outcome("RateLimitError", 0, NoneInt, None)
  ELSE IF IsAuthStatus(response.status)
  THEN Raise("AuthenticationError")
  ELSE raise_for_status(response)

\* One pass through the body of get()/post() once the transport answered:
\* `except httpx.RequestError` turns a transport error into NetworkError.
AttemptOutcome(response) ==
  LET raw == IF response.status = 0 THEN Raise(response.error)
             ELSE _handle_response_errors(response)
  IN IF IsInstance(raw.type, "httpx.RequestError")
     THEN Raise("NetworkError")
     ELSE raw

\* tenacity: retry_if_exception_type((TransportError, TimeoutException))
RetryIfAnyException(out) == IsExc(out)
RetryIf(out) ==
  \/ IsInstance(out.type, "httpx.TransportError")
  \/ IsInstance(out.type, "httpx.TimeoutException")

\* tenacity: stop_after_attempt(3)
StopAfterAttempt == 3

(***************************************************************************)
(* State of the sessions, the transports (httpx.AsyncClient instances) and *)
(* the coroutine frames.                                                   *)
(***************************************************************************)
SessionIds == 1..MaxSessions

\* ScraperSession.__init__: no client, no token.  client is the index of
\* the session's AsyncClient in `transports`, 0 for None.
NoSession == [exists |-> FALSE, client |-> 0, csrf_token |-> None]
ScraperSession == [exists |-> TRUE, client |-> 0, csrf_token |-> None]

Frame(fn, pc, sid, method, include_csrf) ==
  [fn |-> fn, pc |-> pc, sid |-> sid, method |-> method,
   include_csrf |-> include_csrf, attempt |-> 0, tid |-> 0, boot |-> FALSE]

\* What is recorded about the current (or, once done, the last) top-level
\* call of a task: its result, and what it did on the wire.
NoLast ==
  [op |-> None, done |-> FALSE, out |-> NoRet,
   requests |-> 0, attempts |-> 0, refreshes |-> 0,
   first |-> None, second |-> None, refreshed |-> None,
   resp |-> NoResponse, raised |-> NoRet, proxy |-> None,
   xsrf |-> None, http |-> 0, http_retry_after |-> NoneInt,
   refresh_resp |-> NoResponse, refresh_out |-> NoRet,
   held |-> None, token_after |-> None]

Top(t) == stack[t][1]
Rest(t) == Tail(stack[t])
At(t, fn, pc) == stack[t] # <<>> /\ Top(t).fn = fn /\ Top(t).pc = pc

World == [sess |-> sess, transports |-> transports, pool |-> pool]

SetWorld(w) ==
  /\ Len(w.transports) <= MaxTransports
  /\ sess' = w.sess
  /\ transports' = w.transports
  /\ pool' = w.pool

start_with_proxy_in_any_mode(w, sid) ==
  LET r == get_proxy(w.pool, now)
  IN [sess |-> [w.sess EXCEPT ![sid].client = Len(w.transports) + 1],
      transports |-> Append(w.transports,
                            [open |-> TRUE,
                             proxy |-> IF w.pool.present THEN r.proxy
                                       ELSE None,
                             sid |-> sid]),
      pool |-> IF w.pool.present
               THEN [w.pool EXCEPT !.current_index = r.current_index]
               ELSE w.pool]

\* ScraperSession.start
start(w, sid) ==
  LET use_pool == mode = "aggressive" /\ w.pool.present
      r        == get_proxy(w.pool, now)
      proxy    == IF use_pool THEN r.proxy ELSE None
  IN [sess |-> [w.sess EXCEPT ![sid].client = Len(w.transports) + 1],
      transports |-> Append(w.transports,
                            [open |-> TRUE, proxy |-> proxy, sid |-> sid]),
      pool |-> IF use_pool
               THEN [w.pool EXCEPT !.current_index = r.current_index]
               ELSE w.pool]

\* `if not self.client: await self.start()`
EnsureStarted(w, sid) ==
  IF w.sess[sid].client = 0 THEN start(w, sid) ELSE w

\* REST search_jobs: the except chain that answers a failed search.
search_jobs(out) ==
  IF out.type = "ok" THEN [status |-> 200, retry_after |-> NoneInt]
  ELSE IF IsInstance(out.type, "LocationNotFoundError")
  THEN [status |-> 400, retry_after |-> NoneInt]
  ELSE IF IsInstance(out.type, "RateLimitError")
  THEN [status |-> 429,
        retry_after |-> IF out.retry_after \in {NoneInt, 0} THEN 60
                        ELSE out.retry_after]
  ELSE [status |-> 500, retry_after |-> NoneInt]

Finish(obs, out) ==
  LET http == search_jobs(out)
  IN [obs EXCEPT !.done = TRUE, !.out = out,
        !.http = IF obs.op = "search" THEN http.status ELSE 0,
        !.http_retry_after =
           IF obs.op = "search" THEN http.retry_after ELSE NoneInt]

Goto(t, f) == stack' = [stack EXCEPT ![t] = <<f>> \o Rest(t)]

\* f awaits the coroutines `callees` (innermost first).
Call(t, f, callees) ==
  /\ stack' = [stack EXCEPT ![t] = callees \o <<f>> \o Rest(t)]
  /\ ret' = [ret EXCEPT ![t] = NoRet]
  /\ running' = t

\* The innermost coroutine finishes with `out`; a finished top-level call
\* gives the event loop back.
Return(t, out, obs) ==
  /\ stack' = [stack EXCEPT ![t] = Rest(t)]
  /\ IF Rest(t) = <<>>
     THEN /\ ret' = [ret EXCEPT ![t] = NoRet]
          /\ running' = 0
          /\ last' = [last EXCEPT ![t] = Finish(obs, out)]
     ELSE /\ ret' = [ret EXCEPT ![t] = out]
          /\ running' = t
          /\ last' = [last EXCEPT ![t] = obs]

\* The outcome of one get()/post() call, as its caller sees it.
NoteCall(obs, out) ==
  [obs EXCEPT !.first  = IF obs.first = None THEN out.type ELSE @,
              !.second = IF obs.first # None THEN out.type ELSE @]

(***************************************************************************)
(* ScraperSession.get / post, wrapped by tenacity's @retry                 *)
(***************************************************************************)
\* tenacity without reraise=True gives RetryError once the attempts are used
Exhausted(out) ==
  IF RetryIf(out) THEN Raise("tenacity.RetryError") ELSE out

\* The X-XSRF-TOKEN header post() sets (None: no header).
CsrfHeaderIgnoringFlag(method, include_csrf, token) ==
  IF method = "POST" /\ token # None THEN token ELSE None
CsrfHeader(method, include_csrf, token) ==
  IF method = "POST" /\ include_csrf /\ token # None THEN token ELSE None

ReqSend(t) ==
  /\ At(t, "request", "call")
  /\ running = t \/ (running = 0 /\ Top(t).attempt > 0)
  /\ LET f      == Top(t)
         w      == EnsureStarted(World, f.sid)
         client == w.sess[f.sid].client
         xsrf   == CsrfHeader(f.method, f.include_csrf,
                              w.sess[f.sid].csrf_token)
         obs    == [last[t] EXCEPT
                      !.requests = @ + (IF f.attempt = 0 THEN 1 ELSE 0)]
     IN /\ SetWorld(w)
        /\ IF client = 0
           THEN Return(t, Raise("NetworkError"),
                       NoteCall(obs, Raise("NetworkError")))
           ELSE IF ~w.transports[client].open
           THEN Return(t, Raise("RuntimeError"),
                       NoteCall(obs, Raise("RuntimeError")))
           ELSE /\ Goto(t, [f EXCEPT !.pc = "await", !.attempt = @ + 1,
                                     !.tid = client])
                /\ running' = 0
                /\ last' = [last EXCEPT ![t] =
                              [obs EXCEPT !.attempts = @ + 1, !.xsrf = xsrf]]
                /\ UNCHANGED ret
  /\ UNCHANGED fixedVars
  /\ UNCHANGED <<now, got, facade, bootstraps, ncalls>>

ReqRecv(t) ==
  /\ running = 0
  /\ At(t, "request", "await")
  /\ \E response \in upstream.request :
       LET f   == Top(t)
           out == AttemptOutcome(response)
           obs == [last[t] EXCEPT !.resp = response, !.raised = out,
                                  !.proxy = transports[f.tid].proxy]
       IN IF RetryIf(out) /\ f.attempt < StopAfterAttempt
          THEN /\ Goto(t, [f EXCEPT !.pc = "call"])
               /\ last' = [last EXCEPT ![t] = obs]
               /\ UNCHANGED <<ret, running>>
          ELSE Return(t, Exhausted(out), NoteCall(obs, Exhausted(out)))
  /\ UNCHANGED fixedVars
  /\ UNCHANGED <<pool, now, got, sess, transports, facade, bootstraps, ncalls>>

(***************************************************************************)
(* ScraperSession.refresh_csrf_token                                       *)
(***************************************************************************)
RefreshSend(t) ==
  /\ At(t, "refresh", "call")
  /\ running = t
  /\ LET f      == Top(t)
         w      == EnsureStarted(World, f.sid)
         client == w.sess[f.sid].client
         obs    == [last[t] EXCEPT !.refreshes = @ + 1]
     IN /\ SetWorld(w)
        /\ IF client = 0
           THEN /\ Return(t, Raise("NetworkError"), obs)
                /\ UNCHANGED bootstraps
           ELSE IF ~w.transports[client].open
           THEN /\ Return(t, Raise("RuntimeError"), obs)
                /\ UNCHANGED bootstraps
           ELSE /\ Goto(t, [f EXCEPT !.pc = "await", !.tid = client])
                /\ running' = 0
                /\ last' = [last EXCEPT ![t] = obs]
                /\ bootstraps' = bootstraps + (IF f.boot THEN 1 ELSE 0)
                /\ UNCHANGED ret
  /\ UNCHANGED fixedVars
  /\ UNCHANGED <<now, got, facade, ncalls>>

StoredTokenOfAnyCookie(held, cookie) ==
  IF cookie # None THEN cookie ELSE held

\* `token = response.cookies.get(cookie_name)`, `if token:`
StoredToken(held, cookie) ==
  IF cookie \notin {None, ""} THEN cookie ELSE held

RefreshRecv(t) ==
  /\ running = 0
  /\ At(t, "refresh", "await")
  /\ \E response \in upstream.refresh :
       LET f      == Top(t)
           status == raise_for_status(response)
           held   == sess[f.sid].csrf_token
           token  == StoredToken(held, response.cookie)
           Obs(out, after) ==
             [last[t] EXCEPT !.refreshed = out.type,
                             !.refresh_resp = response,
                             !.refresh_out = out,
                             !.held = held, !.token_after = after]
       IN IF response.status = 0
          THEN /\ Return(t, Raise("NetworkError"),
                         Obs(Raise("NetworkError"), held))
               /\ UNCHANGED sess
          ELSE IF IsExc(status)
          THEN /\ Return(t, status, Obs(status, held))
               /\ UNCHANGED sess
          ELSE /\ sess' = [sess EXCEPT ![f.sid].csrf_token = token]
               /\ Return(t, Ok(response.status, token),
                         Obs(Ok(response.status, token), token))
  /\ UNCHANGED fixedVars
  /\ UNCHANGED <<pool, now, got, transports, facade, bootstraps, ncalls>>

(***************************************************************************)
(* ScraperSession.start / close                                            *)
(***************************************************************************)
StartStep(t) ==
  /\ At(t, "start", "call")
  /\ running = t
  /\ SetWorld(start(World, Top(t).sid))
  /\ Return(t, Ok(0, None), last[t])
  /\ UNCHANGED fixedVars
  /\ UNCHANGED <<now, got, facade, bootstraps, ncalls>>

CloseBegin(t) ==
  /\ At(t, "close", "call")
  /\ running = t
  /\ LET f      == Top(t)
         client == sess[f.sid].client
     IN IF client # 0
        THEN /\ transports' = [transports EXCEPT ![client].open = FALSE]
             /\ Goto(t, [f EXCEPT !.pc = "await", !.tid = client])
             /\ running' = 0
             /\ UNCHANGED <<ret, last>>
        ELSE /\ Return(t, Ok(0, None), last[t])
             /\ UNCHANGED transports
  /\ UNCHANGED fixedVars
  /\ UNCHANGED <<pool, now, got, sess, facade, bootstraps, ncalls>>

CloseEnd(t) ==
  /\ running = 0
  /\ At(t, "close", "await")
  /\ sess' = [sess EXCEPT ![Top(t).sid].client = 0]
  /\ Return(t, Ok(0, None), last[t])
  /\ UNCHANGED fixedVars
  /\ UNCHANGED <<pool, now, got, transports, facade, bootstraps, ncalls>>

(***************************************************************************)
(* ScraperSession.with_retry_csrf                                          *)
(***************************************************************************)
\* `except AuthenticationError:` -- the errors that trigger refresh + retry
CatchesNetworkError(out) == IsInstance(out.type, "NetworkError")
CatchesAuth(out) == IsInstance(out.type, "AuthenticationError")

\* The frames of `await self.with_retry_csrf(method, url, ...)`: the first
\* get()/post() is entered at once.
with_retry_csrf(sid, method, include_csrf) ==
  <<Frame("request", "call", sid, method, include_csrf),
    Frame("with_retry_csrf", "first", sid, method, include_csrf)>>

WrcFirstDone(t) ==
  /\ At(t, "with_retry_csrf", "first")
  /\ running = t
  /\ LET f == Top(t)
     IN IF CatchesAuth(ret[t])
        THEN /\ Call(t, [f EXCEPT !.pc = "refresh"],
                     <<Frame("refresh", "call", f.sid, "GET", FALSE)>>)
             /\ UNCHANGED last
        ELSE Return(t, ret[t], last[t])
  /\ UNCHANGED fixedVars
  /\ UNCHANGED <<pool, now, got, sess, transports, facade, bootstraps, ncalls>>

WrcRefreshDone(t) ==
  /\ At(t, "with_retry_csrf", "refresh")
  /\ running = t
  /\ LET f == Top(t)
     IN IF IsExc(ret[t])
        THEN Return(t, ret[t], last[t])
        ELSE /\ Call(t, [f EXCEPT !.pc = "second"],
                     <<Frame("request", "call", f.sid, f.method,
                             f.include_csrf)>>)
             /\ UNCHANGED last
  /\ UNCHANGED fixedVars
  /\ UNCHANGED <<pool, now, got, sess, transports, facade, bootstraps, ncalls>>

WrcSecondDone(t) ==
  /\ At(t, "with_retry_csrf", "second")
  /\ running = t
  /\ Return(t, ret[t], last[t])
  /\ UNCHANGED fixedVars
  /\ UNCHANGED <<pool, now, got, sess, transports, facade, bootstraps, ncalls>>

\* The steps of the session's coroutines
SessionSteps ==
  \/ \E t \in Tasks : ReqSend(t)
  \/ \E t \in Tasks : ReqRecv(t)
  \/ \E t \in Tasks : RefreshSend(t)
  \/ \E t \in Tasks : RefreshRecv(t)
  \/ \E t \in Tasks : CloseBegin(t)
  \/ \E t \in Tasks : CloseEnd(t)
  \/ \E t \in Tasks : WrcFirstDone(t)
  \/ \E t \in Tasks : WrcRefreshDone(t)
  \/ \E t \in Tasks : WrcSecondDone(t)

(***************************************************************************)
(* A caller that drives one session directly, one call after the other.    *)
(***************************************************************************)
SessionOps ==
  {"start", "close", "get", "post", "refresh_csrf_token",
   "with_retry_csrf"}

OpFrames(op, sid, method, include_csrf) ==
  CASE op = "start" -> <<Frame("start", "call", sid, None, FALSE)>>
    [] op = "close" -> <<Frame("close", "call", sid, None, FALSE)>>
    [] op = "get"   -> <<Frame("request", "call", sid, "GET", FALSE)>>
    [] op = "post"  -> <<Frame("request", "call", sid, "POST", include_csrf)>>
    [] op = "refresh_csrf_token" ->
         <<Frame("refresh", "call", sid, "GET", FALSE)>>
    [] op = "with_retry_csrf" -> with_retry_csrf(sid, method, include_csrf)

SessionCall(t) ==
  /\ t = 1
  /\ running = 0
  /\ stack[t] = <<>>
  /\ \E op \in SessionOps, method \in {"GET", "POST"},
        include_csrf \in BOOLEAN :
       /\ stack' = [stack EXCEPT ![t] = OpFrames(op, 1, method, include_csrf)]
       /\ last' = [last EXCEPT ![t] =
                     [NoLast EXCEPT !.op = IF op = "with_retry_csrf"
                                           THEN op
                                           ELSE OpFrames(op, 1, method,
                                                         include_csrf)[1].fn]]
  /\ running' = t
  /\ UNCHANGED fixedVars
  /\ UNCHANGED <<pool, now, got, sess, transports, facade, ret, bootstraps,
                 ncalls>>

NoFacade == [_session |-> 0, _csrf_initialized |-> FALSE]

\* No helper has been called
NoInput == [fn |-> None]
NoOutput == [done |-> FALSE]

InitCommon ==
  /\ now = 1
  /\ got = NoGot
  /\ transports = <<>>
  /\ facade = NoFacade
  /\ stack = [t \in Tasks |-> <<>>]
  /\ ret = [t \in Tasks |-> NoRet]
  /\ running = 0
  /\ last = [t \in Tasks |-> NoLast]
  /\ bootstraps = 0
  /\ ncalls = 0

InitSession ==
  /\ input = NoInput
  /\ output = NoOutput
  /\ upstream = FullUpstream
  /\ mode \in Modes
  /\ pool \in {NoPool, ProxyPool(<<"p1", "p2">>)}
  /\ sess = [s \in SessionIds |-> IF s = 1 THEN ScraperSession ELSE NoSession]
  /\ InitCommon

NextSession ==
  \/ \E t \in Tasks : SessionCall(t)
  \/ \E t \in Tasks : StartStep(t)
  \/ SessionSteps

SpecSession == InitSession /\ [][NextSession]_vars

(***************************************************************************)
(* JobRoomProvider (providers/job_room/client.py)                          *)
(***************************************************************************)
ProviderName == "job_room"

FFrame(fn, pc) == Frame(fn, pc, 0, None, FALSE)

\* The id the next ScraperSession object gets.
NextSessionId == Cardinality({s \in SessionIds : sess[s].exists}) + 1

\* _init_session up to its first await that suspends
InitBegin(t) ==
  /\ At(t, "init", "call")
  /\ running = t
  /\ LET f      == Top(t)
         create == facade._session = 0
         sid    == IF create THEN NextSessionId ELSE facade._session
         w      == IF create
                   THEN start([World EXCEPT !.sess[sid] = ScraperSession],
                              sid)
                   ELSE World
     IN /\ sid \in SessionIds
        /\ SetWorld(w)
        /\ facade' = [facade EXCEPT !._session = sid]
        /\ IF ~facade._csrf_initialized
           THEN /\ Call(t, [f EXCEPT !.pc = "boot"],
                        <<[Frame("refresh", "call", sid, "GET", FALSE)
                             EXCEPT !.boot = TRUE]>>)
                /\ UNCHANGED last
           ELSE Return(t, Ok(0, None), last[t])
  /\ UNCHANGED fixedVars
  /\ UNCHANGED <<now, got, bootstraps, ncalls>>

\* _init_session after `await self._session.refresh_csrf_token(BASE_URL)`
InitBootDone(t) ==
  /\ At(t, "init", "boot")
  /\ running = t
  /\ IF IsExc(ret[t])
     THEN /\ Return(t, ret[t], last[t])
          /\ UNCHANGED facade
     ELSE /\ facade' = [facade EXCEPT !._csrf_initialized = TRUE]
          /\ Return(t, Ok(0, None), last[t])
  /\ UNCHANGED fixedVars
  /\ UNCHANGED <<pool, now, got, sess, transports, bootstraps, ncalls>>

\* JobRoomProvider.close
FCloseBegin(t) ==
  /\ At(t, "fclose", "call")
  /\ running = t
  /\ IF facade._session # 0
     THEN /\ Call(t, [Top(t) EXCEPT !.pc = "closing"],
                  <<Frame("close", "call", facade._session, None, FALSE)>>)
          /\ UNCHANGED last
     ELSE Return(t, Ok(0, None), last[t])
  /\ UNCHANGED fixedVars
  /\ UNCHANGED <<pool, now, got, sess, transports, facade, bootstraps, ncalls>>

FCloseDone(t) ==
  /\ At(t, "fclose", "closing")
  /\ running = t
  /\ facade' = NoFacade
  /\ Return(t, Ok(0, None), last[t])
  /\ UNCHANGED fixedVars
  /\ UNCHANGED <<pool, now, got, sess, transports, bootstraps, ncalls>>

\* What response.json() and the handling of its shape give.
Bodies == {"list", "object", "scalar", "invalid"}

SearchParse(body) ==
  CASE body \in {"list", "object"} -> Ok(200, "SearchResult")
    [] body = "scalar" ->
         ProviderError(ProviderName, Raise("ResponseParseError"))
    [] body = "invalid" ->
         ProviderError(ProviderName, Raise("json.JSONDecodeError"))

DetailsParse(body) ==
  CASE body = "object" -> Ok(200, "JobListing")
    [] body \in {"list", "scalar"} ->
         ProviderError(ProviderName, Raise("AttributeError"))
    [] body = "invalid" ->
         ProviderError(ProviderName, Raise("json.JSONDecodeError"))

\* search: after the first `await self._init_session()`
SearchInit1Done(t) ==
  /\ At(t, "search", "init1")
  /\ running = t
  /\ IF IsExc(ret[t])
     THEN Return(t, ret[t], last[t])
     ELSE /\ Call(t, [Top(t) EXCEPT !.pc = "init2"],
                  <<FFrame("init", "call")>>)
          /\ UNCHANGED last
  /\ UNCHANGED fixedVars
  /\ UNCHANGED <<pool, now, got, sess, transports, facade, bootstraps, ncalls>>

\* search: after the second `await self._init_session()`
SearchInit2Done(t) ==
  /\ At(t, "search", "init2")
  /\ running = t
  /\ IF IsExc(ret[t])
     THEN Return(t, ret[t], last[t])
     ELSE IF facade._session = 0
     THEN Return(t, Raise("AssertionError"), last[t])
     ELSE /\ Call(t, [Top(t) EXCEPT !.pc = "req"],
                  with_retry_csrf(facade._session, "POST", TRUE))
          /\ UNCHANGED last
  /\ UNCHANGED fixedVars
  /\ UNCHANGED <<pool, now, got, sess, transports, facade, bootstraps, ncalls>>

\* search: the body of its try block after with_retry_csrf, and its except
SearchReqDone(t) ==
  /\ At(t, "search", "req")
  /\ running = t
  /\ IF IsExc(ret[t])
     THEN Return(t, ProviderError(ProviderName, ret[t]), last[t])
     ELSE \E body \in Bodies : Return(t, SearchParse(body), last[t])
  /\ UNCHANGED fixedVars
  /\ UNCHANGED <<pool, now, got, sess, transports, facade, bootstraps, ncalls>>

GetDetailsInitDone(t) ==
  /\ At(t, "get_details", "init")
  /\ running = t
  /\ IF IsExc(ret[t])
     THEN Return(t, ret[t], last[t])
     ELSE IF facade._session = 0
     THEN Return(t, Raise("AssertionError"), last[t])
     ELSE /\ Call(t, [Top(t) EXCEPT !.pc = "req"],
                  with_retry_csrf(facade._session, "GET", FALSE))
          /\ UNCHANGED last
  /\ UNCHANGED fixedVars
  /\ UNCHANGED <<pool, now, got, sess, transports, facade, bootstraps, ncalls>>

GetDetailsReqDone(t) ==
  /\ At(t, "get_details", "req")
  /\ running = t
  /\ IF IsExc(ret[t])
     THEN Return(t, ProviderError(ProviderName, ret[t]), last[t])
     ELSE \E body \in Bodies : Return(t, DetailsParse(body), last[t])
  /\ UNCHANGED fixedVars
  /\ UNCHANGED <<pool, now, got, sess, transports, facade, bootstraps, ncalls>>

\* health_check: everything runs inside `try ... except Exception`
HealthInitDone(t) ==
  /\ At(t, "health_check", "init")
  /\ running = t
  /\ IF IsExc(ret[t]) \/ facade._session = 0
     THEN Return(t, Ok(0, "unavailable"), last[t])
     ELSE /\ Call(t, [Top(t) EXCEPT !.pc = "req"],
                  <<Frame("request", "call", facade._session, "GET", FALSE)>>)
          /\ UNCHANGED last
  /\ UNCHANGED fixedVars
  /\ UNCHANGED <<pool, now, got, sess, transports, facade, bootstraps, ncalls>>

HealthReqDone(t) ==
  /\ At(t, "health_check", "req")
  /\ running = t
  /\ IF IsExc(ret[t])
     THEN Return(t, Ok(0, "unavailable"), last[t])
     ELSE IF ret[t].status = 200
     THEN Return(t, Ok(200, "healthy"), last[t])
     ELSE Return(t, Ok(ret[t].status, "degraded"), last[t])
  /\ UNCHANGED fixedVars
  /\ UNCHANGED <<pool, now, got, sess, transports, facade, bootstraps, ncalls>>

FacadeOps == {"search", "get_details", "health_check", "close"}

FacadeFrames(op) ==
  CASE op = "search" ->
         <<FFrame("init", "call"), FFrame("search", "init1")>>
    [] op = "get_details" ->
         <<FFrame("init", "call"), FFrame("get_details", "init")>>
    [] op = "health_check" ->
         <<FFrame("init", "call"), FFrame("health_check", "init")>>
    [] op = "close" -> <<FFrame("fclose", "call")>>

\* A caller of the facade; several callers may have calls in flight.
FacadeCall(t) ==
  /\ running = 0
  /\ stack[t] = <<>>
  /\ ncalls < MaxCalls
  /\ ncalls' = ncalls + 1
  /\ \E op \in FacadeOps :
       /\ stack' = [stack EXCEPT ![t] = FacadeFrames(op)]
       /\ last' = [last EXCEPT ![t] = [NoLast EXCEPT !.op = op]]
  /\ running' = t
  /\ UNCHANGED fixedVars
  /\ UNCHANGED <<pool, now, got, sess, transports, facade, ret, bootstraps>>

FacadeSteps ==
  \/ \E t \in Tasks : InitBegin(t)
  \/ \E t \in Tasks : InitBootDone(t)
  \/ \E t \in Tasks : FCloseBegin(t)
  \/ \E t \in Tasks : FCloseDone(t)
  \/ \E t \in Tasks : SearchInit1Done(t)
  \/ \E t \in Tasks : SearchInit2Done(t)
  \/ \E t \in Tasks : SearchReqDone(t)
  \/ \E t \in Tasks : GetDetailsInitDone(t)
  \/ \E t \in Tasks : GetDetailsReqDone(t)
  \/ \E t \in Tasks : HealthInitDone(t)
  \/ \E t \in Tasks : HealthReqDone(t)

\* JobRoomProvider(): mode STEALTH, no proxy pool, no session yet
InitFacade ==
  /\ input = NoInput
  /\ output = NoOutput
  /\ upstream = FacadeUpstream
  /\ mode = "stealth"
  /\ pool = NoPool
  /\ sess = [s \in SessionIds |-> NoSession]
  /\ InitCommon

NextFacade ==
  \/ \E t \in Tasks : FacadeCall(t)
  \/ FacadeSteps
  \/ SessionSteps

SpecFacade == InitFacade /\ [][NextFacade]_vars

(***************************************************************************)
(* Callers of a ProxyPool (sessions being started, error handlers) and the *)
(* clock that get_proxy and mark_failed read.                              *)
(***************************************************************************)
PoolGetProxy ==
  /\ pool.present
  /\ LET r == get_proxy(pool, now)
     IN /\ got' = [called |-> TRUE, raised |-> r.raised, proxy |-> r.proxy,
                   all_cooling |-> AllCooling(pool, now),
                   index_before |-> pool.current_index,
                   cooldown_before |-> pool.cooldown, time |-> now,
                   run |-> IF Len(got.run) < Len(pool.proxies)
                           THEN Append(got.run, r.proxy) ELSE got.run]
        /\ pool' = [pool EXCEPT !.current_index = r.current_index]
  /\ UNCHANGED <<fixedVars, now>>
  /\ UNCHANGED progVars

PoolMarkFailed ==
  /\ pool.present
  /\ \E proxy \in ProxyNames, cooldown_seconds \in CooldownSeconds :
       pool' = mark_failed(pool, proxy, now, cooldown_seconds)
  /\ UNCHANGED fixedVars
  /\ UNCHANGED <<now, got>>
  /\ UNCHANGED progVars

Tick ==
  /\ now < MaxTime
  /\ now' = now + 1
  /\ UNCHANGED fixedVars
  /\ UNCHANGED <<pool, got>>
  /\ UNCHANGED progVars

InitPool ==
  /\ input = NoInput
  /\ output = NoOutput
  /\ upstream = FullUpstream
  /\ mode = "aggressive"
  /\ pool \in {ProxyPool(ps) : ps \in SeqsUpTo(ProxyNames, MaxPool)}
  /\ sess = [s \in SessionIds |-> NoSession]
  /\ InitCommon

NextPool == PoolGetProxy \/ PoolMarkFailed \/ Tick

SpecPool == InitPool /\ [][NextPool]_vars

(***************************************************************************)
(* BFSLocationMapper (providers/job_room/mapper.py): free text to communal *)
(* codes.  The texts tried, and what trimming and case folding make of     *)
(* them.                                                                   *)
(***************************************************************************)
LocationTexts ==
  {"", "  ", "Zurich", " ZURICH ", "8000", "winter", "Atlantis", " Atlantis "}

strip(text) ==
  CASE text = "  " -> ""
    [] text = " ZURICH " -> "ZURICH"
    [] text = " Atlantis " -> "Atlantis"
    [] OTHER -> text

casefold(text) ==
  CASE text \in {"Zurich", "ZURICH"} -> "zurich"
    [] OTHER -> text

CITY_TO_BFS ==
  [city \in {"zurich", "winterthur", "bern"} |->
     CASE city = "zurich" -> <<"261">>
       [] city = "winterthur" -> <<"230">>
       [] city = "bern" -> <<"351">>]

POSTAL_TO_BFS == [code \in {"8000"} |-> <<"261">>]

\* the city names that contain `text`
PartialMatches(text) ==
  IF text = "winter" THEN {"winterthur"} ELSE {}

Resolved(codes) == [raised |-> FALSE, codes |-> codes, text |-> None]
LocationNotFoundError(text) ==
  [raised |-> TRUE, codes |-> <<>>, text |-> text]

resolve(text) ==
  LET normalized == casefold(strip(text))
  IN IF normalized = "" THEN LocationNotFoundError(text)
     ELSE IF normalized \in DOMAIN CITY_TO_BFS
     THEN Resolved(CITY_TO_BFS[normalized])
     ELSE IF normalized \in DOMAIN POSTAL_TO_BFS
     THEN Resolved(POSTAL_TO_BFS[normalized])
     ELSE IF PartialMatches(normalized) # {}
     THEN Resolved(CITY_TO_BFS[CHOOSE c \in PartialMatches(normalized) : TRUE])
     ELSE LocationNotFoundError(text)

resolve_unguarded(text) == resolve(text)
resolve_safe(text) ==
  LET r == resolve(text)
  IN IF r.raised THEN Resolved(<<>>) ELSE r

\* A caller of the mapper: up to MaxLookups lookups, each through either
\* variant; `output.calls` keeps what each call was given and gave back.
MaxLookups == 2

Lookup(fn, text, result) == [fn |-> fn, text |-> text, result |-> result]

Resolve ==
  /\ input.fn = "BFSLocationMapper"
  /\ Len(output.calls) < MaxLookups
  /\ \E text \in LocationTexts :
       output' = [output EXCEPT
                    !.calls = Append(@, Lookup("resolve", text,
                                               resolve(text)))]
  /\ UNCHANGED <<input, envVars, poolVars, progVars>>

ResolveSafe ==
  /\ input.fn = "BFSLocationMapper"
  /\ Len(output.calls) < MaxLookups
  /\ \E text \in LocationTexts :
       output' = [output EXCEPT
                    !.calls = Append(@, Lookup("resolve_safe", text,
                                               resolve_safe(text)))]
  /\ UNCHANGED <<input, envVars, poolVars, progVars>>

(***************************************************************************)
(* JobSearchRequest (core/models.py) and JobRoomProvider's                 *)
(* _build_search_payload.  JSON null is None, true/false of a nullable     *)
(* boolean are the literals "true"/"false".                                *)
(***************************************************************************)
\* Python truthiness of an optional string
Truthy(s) == s \notin {None, ""}

NoRadius == [set |-> FALSE, lat |-> 0, lon |-> 0, distance |-> 0]
RadiusSearchRequest(lat, lon, distance) ==
  [set |-> TRUE, lat |-> lat, lon |-> lon, distance |-> distance]

LanguageSkillFilter(language_code, spoken_level, written_level) ==
  [language_code |-> language_code, spoken_level |-> spoken_level,
   written_level |-> written_level]

\* JobSearchRequest(): every field at its default
JobSearchRequest ==
  [query |-> None, keywords |-> <<>>, location |-> None,
   communal_codes |-> <<>>, canton_codes |-> <<>>,
   radius_search |-> NoRadius,
   workload_min |-> 10, workload_max |-> 100,
   contract_type |-> "any", work_forms |-> <<>>,
   profession_codes |-> <<>>, company_name |-> None,
   posted_within_days |-> 60, display_restricted |-> FALSE,
   language_skills |-> <<>>]

\* `communal_codes = list(request.communal_codes)`, extended with what
\* resolve_safe gives for a truthy location
CommunalCodesStrict(request) ==
  LET resolved == IF Truthy(request.location)
                  THEN resolve(request.location)
                  ELSE Resolved(<<>>)
  IN [raised |-> resolved.raised,
      codes |-> request.communal_codes \o resolved.codes]
CommunalCodes(request) ==
  LET resolved == IF Truthy(request.location)
                  THEN resolve_safe(request.location)
                  ELSE Resolved(<<>>)
  IN [raised |-> resolved.raised,
      codes |-> request.communal_codes \o resolved.codes]

\* `keywords = list(request.keywords)`, plus a truthy query
KeywordsAlwaysQuery(request) == Append(request.keywords, request.query)
Keywords(request) ==
  IF Truthy(request.query) THEN Append(request.keywords, request.query)
  ELSE request.keywords

\* null = any, true = permanent, false = temporary
PermanentFalseForAny(contract_type) ==
  IF contract_type = "permanent" THEN "true" ELSE "false"
Permanent(contract_type) ==
  IF contract_type = "permanent" THEN "true"
  ELSE IF contract_type = "temporary" THEN "false"
  ELSE None

\* the `radius_search` local: a dict, or None when the request has none
RadiusSearch(request) ==
  IF request.radius_search.set
  THEN [set |-> TRUE,
        value |-> [geoPoint |-> [lat |-> request.radius_search.lat,
                                 lon |-> request.radius_search.lon],
                   distance |-> request.radius_search.distance]]
  ELSE [set |-> FALSE,
        value |-> [geoPoint |-> [lat |-> 0, lon |-> 0], distance |-> 0]]

\* the `language_skills` local: one dict per requirement, a level key only
\* for a level that is set
LanguageSkillEntry(ls) ==
  ("languageIsoCode" :> ls.language_code)
    @@ (IF ls.spoken_level # None
        THEN "spokenLevel" :> ls.spoken_level ELSE <<>>)
    @@ (IF ls.written_level # None
        THEN "writtenLevel" :> ls.written_level ELSE <<>>)

LanguageSkillEntries(request) ==
  [i \in DOMAIN request.language_skills |->
     LanguageSkillEntry(request.language_skills[i])]

\* `if radius_search: payload["radiusSearchRequest"] = radius_search`
WithRadiusAlways(payload, radius_search) ==
  payload @@ ("radiusSearchRequest" :> radius_search.value)
WithRadius(payload, radius_search) ==
  IF radius_search.set
  THEN payload @@ ("radiusSearchRequest" :> radius_search.value)
  ELSE payload

\* `x if x else []`
OrEmptyList(l) == IF l # <<>> THEN l ELSE <<>>

\* The result of one call: the payload, whether building raised, and the
\* request as the call left it (the builder only extends copies).
_build_search_payload(request) ==
  LET communal_codes  == CommunalCodes(request)
      keywords        == Keywords(request)
      permanent       == Permanent(request.contract_type)
      radius_search   == RadiusSearch(request)
      language_skills == LanguageSkillEntries(request)
      payload ==
        [workloadPercentageMin |-> request.workload_min,
         workloadPercentageMax |-> request.workload_max,
         permanent |-> permanent,
         companyName |-> request.company_name,
         onlineSince |-> request.posted_within_days,
         displayRestricted |-> request.display_restricted,
         professionCodes |-> request.profession_codes,
         keywords |-> OrEmptyList(keywords),
         communalCodes |-> OrEmptyList(communal_codes.codes),
         cantonCodes |-> OrEmptyList(request.canton_codes)]
  IN [done |-> TRUE, raised |-> communal_codes.raised,
      payload |-> WithRadius(payload, radius_search),
      request |-> request]

\* The criteria the builder is tried on
ContractTypes == {"any", "permanent", "temporary"}
RadiusSearches ==
  {NoRadius, RadiusSearchRequest(0, 0, 0), RadiusSearchRequest(47, 8, 30)}
LanguageSkillLists ==
  {<<>>,
   <<LanguageSkillFilter("de", None, None)>>,
   <<LanguageSkillFilter("de", "B2", None),
     LanguageSkillFilter("fr", None, "C1")>>}

SearchRequests ==
  {[JobSearchRequest EXCEPT
      !.contract_type = c, !.radius_search = r, !.location = l,
      !.communal_codes = cc, !.query = q, !.keywords = k,
      !.language_skills = ls] :
     c \in ContractTypes, r \in RadiusSearches,
     l \in {None} \cup LocationTexts,
     cc \in {<<>>, <<"351">>}, q \in {None, "", "dev"},
     k \in {<<>>, <<"python">>}, ls \in LanguageSkillLists}

BuildSearchPayload ==
  /\ input.fn = "_build_search_payload"
  /\ ~output.done
  /\ output' = _build_search_payload(input.request)
  /\ UNCHANGED <<input, envVars, poolVars, progVars>>

\* A provider whose session is not started; only the helper is called
InitHelper ==
  /\ upstream = FullUpstream
  /\ mode = "stealth"
  /\ pool = NoPool
  /\ sess = [s \in SessionIds |-> NoSession]
  /\ InitCommon
  /\ output = NoOutput

InitResolver ==
  /\ input = [fn |-> "BFSLocationMapper"]
  /\ output = [done |-> FALSE, calls |-> <<>>]
  /\ upstream = FullUpstream
  /\ mode = "stealth"
  /\ pool = NoPool
  /\ sess = [s \in SessionIds |-> NoSession]
  /\ InitCommon

NextResolver == Resolve \/ ResolveSafe

SpecResolver == InitResolver /\ [][NextResolver]_vars

InitPayload ==
  /\ input \in {[fn |-> "_build_search_payload", request |-> r] :
                  r \in SearchRequests}
  /\ InitHelper

NextPayload == BuildSearchPayload

SpecPayload == InitPayload /\ [][NextPayload]_vars

(***************************************************************************)
(* JobRoomProvider._transform_job: one raw upstream record to a JobListing.*)
(*                                                                         *)
(* A raw record is kept flat.  A substructure or list is "absent" (no such *)
(* key), "null" (the key holds JSON null) or present; the keys of          *)
(* jobContent count only when jobContent is an object.  A scalar is        *)
(* [kind, n, s]: a JSON number n, a JSON string s (its characters), the    *)
(* number Infinity that json.loads accepts, null, or absent.               *)
(***************************************************************************)
Kinds == {"absent", "null", "object"}
ListKinds == {"absent", "null", "list"}

Scalar(kind, n, s) == [kind |-> kind, n |-> n, s |-> s]
Absent == Scalar("absent", 0, <<>>)
Null == Scalar("null", 0, <<>>)
Number(n) == Scalar("number", n, <<>>)
String(s) == Scalar("string", 0, s)
Infinity == Scalar("infinity", 0, <<>>)

\* createdTime / updatedTime as they come: a well-formed ISO-8601 string, a
\* string that is no timestamp, the empty string, a JSON number, null or
\* absent
TimeValues ==
  {"absent", "null", "2024-01-15T10:30:00Z", "yesterday", "", "1700000000"}
IsJsonString(time) == time \in {"2024-01-15T10:30:00Z", "yesterday", ""}

\* A record with every section present and well-formed
FullRecord ==
  [jobContent |-> "object", jobDescriptions |-> "list",
   company |-> "object", location |-> "object", city |-> "Bern",
   coordinates |-> "object", lat |-> Number(47), lon |-> Number(8),
   employment |-> "object", permanent |-> "false",
   workloadPercentageMin |-> Number(80),
   workloadPercentageMax |-> String(<<"9", "0">>),
   occupations |-> "list", languageSkills |-> "list",
   publicContact |-> "object", applyChannel |-> "object",
   publication |-> "object",
   createdTime |-> "2024-01-15T10:30:00Z",
   updatedTime |-> "2024-01-15T10:30:00Z",
   numberOfJobs |-> Number(2)]

\* `content.get(key, ...)` for a substructure or list key of jobContent:
\* `content` is {} when the record has no jobContent
ContentKind(job, key) ==
  IF job.jobContent = "object" THEN job[key] ELSE "absent"

\* `content.get(key)` / `emp_data.get(key)` for a scalar key below `parent`
ScalarOf(job, parent, key) ==
  IF job.jobContent = "object" /\ job[parent] = "object" THEN job[key]
  ELSE Absent

\* _safe_int: None gives the default, int() failing with ValueError or
\* TypeError gives the default; int(inf) raises OverflowError
_safe_int_zero_default(value, default) ==
  CASE value.kind \in {"absent", "null"} -> [raised |-> None, value |-> 0]
    [] value.kind = "number" -> [raised |-> None, value |-> value.n]
    [] value.kind = "string" ->
         [raised |-> None,
          value |-> IF py_int(value.s).ok THEN py_int(value.s).value ELSE 0]
    [] value.kind = "infinity" ->
         [raised |-> "OverflowError", value |-> 0]
_safe_int(value, default) ==
  CASE value.kind \in {"absent", "null"} ->
         [raised |-> None, value |-> default]
    [] value.kind = "number" -> [raised |-> None, value |-> value.n]
    [] value.kind = "string" ->
         [raised |-> None,
          value |-> IF py_int(value.s).ok THEN py_int(value.s).value
                    ELSE default]
    [] value.kind = "infinity" ->
         [raised |-> "OverflowError", value |-> default]

\* Python truthiness of a scalar
TruthyScalar(value) ==
  CASE value.kind \in {"absent", "null"} -> FALSE
    [] value.kind = "number" -> value.n # 0
    [] value.kind = "string" -> value.s # <<>>
    [] value.kind = "infinity" -> TRUE

\* float(value): a number, or a string of digits
py_float(value) ==
  CASE value.kind = "number" -> [ok |-> TRUE, value |-> value.n]
    [] value.kind = "string" -> py_int(value.s)
    [] OTHER -> [ok |-> FALSE, value |-> NoneInt]

NoCoordinates == [set |-> FALSE, lat |-> 0, lon |-> 0]

\* `location_data.get("coordinates") or {}`, then Coordinates(...) under
\* try/except (ValueError, TypeError)
Coordinates(job) ==
  LET present == ContentKind(job, "location") = "object"
                   /\ job.coordinates = "object"
      lat == IF present THEN job.lat ELSE Absent
      lon == IF present THEN job.lon ELSE Absent
  IN IF TruthyScalar(lat) /\ TruthyScalar(lon)
          /\ py_float(lat).ok /\ py_float(lon).ok
     THEN [set |-> TRUE, lat |-> py_float(lat).value,
           lon |-> py_float(lon).value]
     ELSE NoCoordinates

\* datetime.fromisoformat(job[key].replace("Z", "+00:00")) guarded by
\* `if job.get(key)` and except (ValueError, TypeError)
ParseTime(time) ==
  IF time \in {"absent", "null", ""} THEN [raised |-> None, value |-> None]
  ELSE IF ~IsJsonString(time)
  THEN [raised |-> "AttributeError", value |-> None]
  ELSE IF time = "2024-01-15T10:30:00Z"
  THEN [raised |-> None, value |-> "2024-01-15T10:30:00+00:00"]
  ELSE [raised |-> None, value |-> None]

\* `x = d.get(key, {})` followed by `x.get(...)`: None has no .get
GetOf(kind) == IF kind = "null" THEN "AttributeError" ELSE None

\* `for item in content.get(key, [])`: None is not iterable
Iterate(kind) == IF kind = "null" THEN "TypeError" ELSE None

\* `X(...) if data else None`
IfTruthy(kind, made) == IF kind = "object" THEN made ELSE None

\* the items a present list holds
ListOf(kind, item) == IF kind = "list" THEN <<item>> ELSE <<>>

FirstRaised(raises) ==
  LET hits == SelectSeq(raises, LAMBDA e : e # None)
  IN IF hits = <<>> THEN None ELSE hits[1]

_transform_job(job) ==
  LET descriptions == ListOf(ContentKind(job, "jobDescriptions"),
                             "JobDescription")
      location_ok  == ContentKind(job, "location") = "object"
      workload_min == _safe_int(ScalarOf(job, "employment",
                                         "workloadPercentageMin"), 100)
      workload_max == _safe_int(ScalarOf(job, "employment",
                                         "workloadPercentageMax"), 100)
      positions    == _safe_int(IF job.jobContent = "object"
                                THEN job.numberOfJobs ELSE Absent, 1)
      created_at   == ParseTime(job.createdTime)
      updated_at   == ParseTime(job.updatedTime)
      raised ==
        FirstRaised(<<GetOf(job.jobContent),
                      Iterate(ContentKind(job, "jobDescriptions")),
                      GetOf(ContentKind(job, "company")),
                      GetOf(ContentKind(job, "employment")),
                      workload_min.raised, workload_max.raised,
                      Iterate(ContentKind(job, "occupations")),
                      Iterate(ContentKind(job, "languageSkills")),
                      created_at.raised, updated_at.raised,
                      positions.raised>>)
  IN [raised |-> raised,
      descriptions |-> descriptions,
      company_name |-> IF ContentKind(job, "company") = "object"
                       THEN "ACME" ELSE None,
      city |-> IF location_ok THEN job.city ELSE "",
      country_code |-> "CH",
      coordinates |-> Coordinates(job),
      is_permanent |->
        IF ContentKind(job, "employment") = "object"
        THEN job.permanent # "false" ELSE TRUE,
      workload_min |-> workload_min.value,
      workload_max |-> workload_max.value,
      occupations |-> ListOf(ContentKind(job, "occupations"), "Occupation"),
      language_skills |->
        ListOf(ContentKind(job, "languageSkills"), "LanguageSkill"),
      contact |-> IfTruthy(ContentKind(job, "publicContact"), "ContactInfo"),
      application |->
        IfTruthy(ContentKind(job, "applyChannel"), "ApplicationChannel"),
      publication |-> IfTruthy(job.publication, "PublicationInfo"),
      created_at |-> created_at.value,
      updated_at |-> updated_at.value,
      number_of_positions |-> positions.value]

\* search: `items = [self._transform_job(job) for job in jobs]` inside the
\* try whose except wraps everything into ProviderError
TransformJobs(jobs) ==
  LET items == [i \in DOMAIN jobs |-> _transform_job(jobs[i])]
      hits  == SelectSeq(items, LAMBDA item : item.raised # None)
  IN IF hits = <<>>
     THEN [done |-> TRUE, raised |-> None, cause |-> None, items |-> items]
     ELSE [done |-> TRUE, raised |-> "ProviderError",
           cause |-> hits[1].raised, items |-> <<>>]

\* The records the transformer is tried on
MaxRecords == 2

GoodRest ==
  [coordinates |-> "object", lat |-> Number(47), lists |-> "list",
   channels |-> "object", time |-> "2024-01-15T10:30:00Z",
   number |-> Number(80)]

\* What the keys other than company, location and employment hold: all
\* well-formed, all absent, or one of them null or malformed
Rests ==
  {GoodRest,
   [GoodRest EXCEPT !.lists = "absent", !.channels = "absent",
                    !.time = "absent", !.number = Absent],
   [GoodRest EXCEPT !.coordinates = "null"],
   [GoodRest EXCEPT !.lat = String(<<"x">>)],
   [GoodRest EXCEPT !.coordinates = "absent"],
   [GoodRest EXCEPT !.lat = String(<<"4", "7">>)],
   [GoodRest EXCEPT !.lat = Number(0)],
   [GoodRest EXCEPT !.lat = Null],
   [GoodRest EXCEPT !.lat = Absent],
   [GoodRest EXCEPT !.lists = "null"],
   [GoodRest EXCEPT !.channels = "null"],
   [GoodRest EXCEPT !.time = "null"],
   [GoodRest EXCEPT !.time = ""],
   [GoodRest EXCEPT !.time = "yesterday"],
   [GoodRest EXCEPT !.time = "1700000000"],
   [GoodRest EXCEPT !.number = Null],
   [GoodRest EXCEPT !.number = String(<<"x">>)],
   [GoodRest EXCEPT !.number = Infinity]}

RawRecords ==
  {[FullRecord EXCEPT
      !.jobContent = jc, !.company = c, !.location = l, !.employment = e,
      !.coordinates = rest.coordinates, !.lat = rest.lat,
      !.jobDescriptions = rest.lists, !.occupations = rest.lists,
      !.languageSkills = rest.lists,
      !.publicContact = rest.channels, !.applyChannel = rest.channels,
      !.publication = rest.channels,
      !.createdTime = rest.time,
      !.workloadPercentageMin = rest.number,
      !.numberOfJobs = rest.number] :
     jc \in Kinds, c \in Kinds, l \in Kinds, e \in Kinds, rest \in Rests}

RECURSIVE FullRecords(_)
FullRecords(n) == IF n = 0 THEN <<>> ELSE <<FullRecord>> \o FullRecords(n - 1)

\* One record of any shape among well-formed ones
Batches ==
  {FullRecords(before) \o <<job>> \o FullRecords(after) :
     job \in RawRecords,
     before \in 0..(MaxRecords - 1), after \in 0..(MaxRecords - 1)}

TransformJob ==
  /\ input.fn = "_transform_job"
  /\ ~output.done
  /\ output' = [done |-> TRUE, listing |-> _transform_job(input.job)]
  /\ UNCHANGED <<input, envVars, poolVars, progVars>>

SearchTransform ==
  /\ input.fn = "search"
  /\ ~output.done
  /\ output' = TransformJobs(input.jobs)
  /\ UNCHANGED <<input, envVars, poolVars, progVars>>

InitTransform ==
  /\ input \in {[fn |-> "_transform_job", job |-> job] : job \in RawRecords}
              \cup {[fn |-> "search", jobs |-> jobs] :
                      jobs \in {b \in Batches : Len(b) <= MaxRecords}}
  /\ InitHelper

NextTransform == TransformJob \/ SearchTransform

SpecTransform == InitTransform /\ [][NextTransform]_vars

(***************************************************************************)
(* JobRoomProvider.search from `data = response.json()` to its return or   *)
(* raise.  `data` is the decoded body: its top-level shape and, for an     *)
(* object, what the keys content, jobAdvertisements and totalElements      *)
(* hold.  A list of records is given by its length (well-formed records).  *)
(***************************************************************************)
MaxTotal == 7

NoList == [kind |-> "absent", n |-> 0]
NullList == [kind |-> "null", n |-> 0]
ListOfRecords(n) == [kind |-> "list", n |-> n]

Lists == {NoList, NullList} \cup {ListOfRecords(n) : n \in 0..MaxRecords}

TopShapes == {"list", "object", "string", "number", "null", "invalid"}

SearchData(top, records, content, jobAdvertisements, totalElements) ==
  [top |-> top, records |-> records, content |-> content,
   jobAdvertisements |-> jobAdvertisements, totalElements |-> totalElements]

TotalCounts == (0..MaxTotal) \cup {19, 20, 21, 99, 100, 101}
PageSizes == {1, 2, 3, 20, 100}

SearchBodies ==
  {SearchData("list", ListOfRecords(n), NoList, NoList, Absent) :
     n \in 0..MaxRecords}
  \cup {SearchData("object", NoList, c, ja, te) :
          c \in Lists, ja \in Lists,
          te \in {Absent, Null} \cup {Number(n) : n \in TotalCounts}}
  \cup {SearchData(top, NoList, NoList, NoList, Absent) :
          top \in {"string", "number", "null", "invalid"}}

\* `(total_count + request.page_size - 1) // request.page_size`
TotalPagesFloor(total_count, page_size) == total_count \div page_size
TotalPages(total_count, page_size) ==
  (total_count + page_size - 1) \div page_size

\* `data.get("content", data.get("jobAdvertisements", []))`
EnvelopeJobsAdvertisementsFirst(data) ==
  IF data.jobAdvertisements.kind # "absent" THEN data.jobAdvertisements
  ELSE IF data.content.kind # "absent" THEN data.content
  ELSE ListOfRecords(0)
EnvelopeJobs(data) ==
  IF data.content.kind # "absent" THEN data.content
  ELSE IF data.jobAdvertisements.kind # "absent" THEN data.jobAdvertisements
  ELSE ListOfRecords(0)

SearchFailed(cause, request) ==
  [done |-> TRUE, raised |-> "ProviderError", cause |-> cause,
   jobs |-> <<>>, transformed |-> 0, items |-> <<>>,
   total_count |-> NoneInt, total_pages |-> NoneInt,
   page |-> request.page, page_size |-> request.page_size]

\* the JobSearchResponse search() returns for `jobs` and `total_count`
JobSearchResponse(jobs, total_count, request) ==
  LET transformed == TransformJobs(jobs)
  IN IF transformed.raised # None
     THEN SearchFailed(transformed.cause, request)
     ELSE IF total_count.kind # "number"
     THEN [SearchFailed("TypeError", request) EXCEPT
             !.transformed = Len(jobs)]
     ELSE [done |-> TRUE, raised |-> None, cause |-> None,
           jobs |-> jobs, transformed |-> Len(jobs),
           items |-> transformed.items,
           total_count |-> total_count.n,
           total_pages |-> TotalPages(total_count.n, request.page_size),
           page |-> request.page, page_size |-> request.page_size]

ParseSearchResponse(data, request) ==
  IF data.top = "invalid"
  THEN SearchFailed("json.JSONDecodeError", request)
  ELSE IF data.top = "list"
  THEN JobSearchResponse(FullRecords(data.records.n),
                         Number(data.records.n), request)
  ELSE IF data.top = "object"
  THEN LET jobs == EnvelopeJobs(data)
       IN IF jobs.kind = "null"
          THEN SearchFailed("TypeError", request)
          ELSE JobSearchResponse(
                 FullRecords(jobs.n),
                 IF data.totalElements.kind = "absent" THEN Number(jobs.n)
                 ELSE data.totalElements,
                 request)
  ELSE SearchFailed("ResponseParseError", request)

SearchResponse ==
  /\ input.fn = "search.response"
  /\ ~output.done
  /\ output' = ParseSearchResponse(input.data, input.request)
  /\ UNCHANGED <<input, envVars, poolVars, progVars>>

InitParse ==
  /\ input \in {[fn |-> "search.response", data |-> data,
                 request |-> [page |-> page, page_size |-> page_size]] :
                  data \in SearchBodies, page \in 0..1,
                  page_size \in PageSizes}
  /\ InitHelper

NextParse == SearchResponse

SpecParse == InitParse /\ [][NextParse]_vars

(***************************************************************************)
(* AI enrichment of a search result: the REST route's post-processing      *)
(* step, the processor's provider selection and the provider's batch loop  *)
(***************************************************************************)
MaxItems == 2

\* values of AI_PROVIDER and AI_API_KEY in the environment
ProviderNames == {None, "gemini", "groq", "openai"}
ApiKeys == {None, "", "key"}

\* AISettings(): ai_provider is Literal["gemini", "groq"] | None
AISettings(ai_provider, ai_api_key) ==
  IF ai_provider \in {None, "gemini", "groq"}
  THEN [raised |-> None, ai_provider |-> ai_provider,
        ai_api_key |-> ai_api_key]
  ELSE [raised |-> "ValidationError", ai_provider |-> ai_provider,
        ai_api_key |-> ai_api_key]

\* AISettings.is_enabled: bool(self.ai_provider and self.ai_api_key)
is_enabled(settings) ==
  settings.ai_provider # None /\ settings.ai_api_key \notin {None, ""}

\* AIProcessor._get_provider: the provider's name, or the exception raised
_get_provider(settings) ==
  IF ~is_enabled(settings) THEN [raised |-> "RuntimeError", name |-> None]
  ELSE IF settings.ai_provider = "gemini"
  THEN [raised |-> None, name |-> "gemini"]
  ELSE IF settings.ai_provider = "groq"
  THEN [raised |-> None, name |-> "groq"]
  ELSE [raised |-> "ValueError", name |-> None]

\* what _send_request yields for one listing: the decoded JSON object of the
\* model's answer, or the exception it raises
AIAnswers ==
  {[raised |-> None, title_en |-> "Cook", description_en |-> "We hire",
    experience_level |-> lvl] : lvl \in {"Senior", "guru", None}}
  \cup {[raised |-> e, title_en |-> None, description_en |-> None,
         experience_level |-> None] :
          e \in {"json.JSONDecodeError", "APIError", "ImportError"}}

ExperienceLevels == {"entry", "junior", "mid", "senior", "lead", "principal"}

lower(s) == IF s = "Senior" THEN "senior" ELSE s

ProcessedJob(original_id, title_en, description_en, experience_level) ==
  [original_id |-> original_id, title_en |-> title_en,
   description_en |-> description_en,
   experience_level |-> experience_level]

\* AIProvider._parse_response
_parse_response(job_id, response) ==
  IF response.experience_level = None
  THEN [raised |-> "AttributeError", job |-> None]
  ELSE [raised |-> None,
        job |-> ProcessedJob(job_id, response.title_en,
                             response.description_en,
                             IF lower(response.experience_level)
                                  \in ExperienceLevels
                             THEN lower(response.experience_level)
                             ELSE "mid")]

\* the description text process_job takes from a listing
FirstDescription(job) ==
  IF job.descriptions # <<>> THEN job.descriptions[1].description ELSE ""

\* the minimal ProcessedJob returned when the request or the parse fails
DegradedJob(job) ==
  ProcessedJob(job.id, job.title, FirstDescription(job), "mid")

\* AIProvider.process_job
process_job(job, answer) ==
  IF answer.raised # None THEN DegradedJob(job)
  ELSE LET parsed == _parse_response(job.id, answer)
       IN IF parsed.raised # None THEN DegradedJob(job) ELSE parsed.job

EnrichFailed(job, answer) ==
  answer.raised # None \/ _parse_response(job.id, answer).raised # None

JobIds == <<"job-1", "job-2", "job-3", "job-4">>

JobListings(n) ==
  [1..n -> {<<>>, <<[description |-> "Wir suchen", language_code |-> "de"]>>}]

\* result.items of a finished search, under each AI configuration
EnrichInputs ==
  UNION {
    {[fn |-> "search_jobs.ai_process", ai_provider |-> p, ai_api_key |-> k,
      items |-> [i \in 1..n |-> [id |-> JobIds[i], title |-> "Koch",
                                descriptions |-> d[i]]]] :
       p \in ProviderNames, k \in ApiKeys, d \in JobListings(n)} :
    n \in 0..MaxItems}

\* search_jobs, `if ai_process:` up to the call of provider.process_batch
GetProcessor ==
  /\ input.fn = "search_jobs.ai_process"
  /\ output.phase = "searched"
  /\ LET settings == AISettings(input.ai_provider, input.ai_api_key)
         provider == _get_provider(settings)
     IN output' =
          IF settings.raised # None
          THEN [output EXCEPT !.done = TRUE, !.phase = "raised",
                              !.raised = settings.raised]
          ELSE IF ~is_enabled(settings)
          THEN [output EXCEPT !.done = TRUE, !.phase = "returned"]
          ELSE IF input.items = <<>>
          THEN [output EXCEPT !.done = TRUE, !.phase = "returned",
                              !.enriched = TRUE]
          ELSE IF provider.raised # None
          THEN [output EXCEPT !.done = TRUE, !.phase = "raised",
                              !.raised = provider.raised]
          ELSE [output EXCEPT !.phase = "process_batch"]
  /\ UNCHANGED <<input, envVars, poolVars, progVars>>

\* one iteration of the loop of AIProvider.process_batch
ProcessJob ==
  /\ input.fn = "search_jobs.ai_process"
  /\ output.phase = "process_batch"
  /\ Len(output.processed) < Len(input.items)
  /\ \E answer \in AIAnswers :
       LET i == Len(output.processed) + 1
       IN output' = [output EXCEPT
            !.answers = Append(@, answer),
            !.processed = Append(@, process_job(input.items[i], answer))]
  /\ UNCHANGED <<input, envVars, poolVars, progVars>>

\* process_batch returns; the route zips items with the processed jobs,
\* stores each under raw_data["ai_processed"] and returns the result
AttachProcessed ==
  /\ input.fn = "search_jobs.ai_process"
  /\ output.phase = "process_batch"
  /\ Len(output.processed) = Len(input.items)
  /\ output' = [output EXCEPT !.done = TRUE, !.phase = "returned",
                              !.enriched = TRUE]
  /\ UNCHANGED <<input, envVars, poolVars, progVars>>

InitEnrich ==
  /\ input \in EnrichInputs
  /\ output = [done |-> FALSE, phase |-> "searched", raised |-> None,
               enriched |-> FALSE, answers |-> <<>>, processed |-> <<>>]
  /\ upstream = FacadeUpstream
  /\ mode = "stealth"
  /\ pool = NoPool
  /\ sess = [s \in SessionIds |-> NoSession]
  /\ InitCommon

NextEnrich == GetProcessor \/ ProcessJob \/ AttachProcessed

SpecEnrich == InitEnrich /\ [][NextEnrich]_vars

(***************************************************************************)
(* Job repository: upsert keyed by listing id and content hash             *)
(***************************************************************************)
MaxUpserts == 2
MaxBatch == 2

\* strings are sequences of pieces, so that joining them is concatenation
Titles == {<<"A">>, <<"A", "|", "[]">>}
CompanyNames == {<<"X">>, <<"[]", "|", "X">>}
DescriptionLists == {<<>>, <<"Wir suchen">>}

\* str() of the list of descriptions
repr(descriptions) ==
  IF descriptions = <<>> THEN <<"[]">>
  ELSE <<"[JobDescription(description='" \o descriptions[1] \o "')]">>

\* f"{job.title}|{job.descriptions}|{job.company.name}"
Content(job) ==
  job.title \o <<"|">> \o repr(job.descriptions) \o <<"|">> \o job.company_name

ContentHashOfTitle(job) == job.title

\* sha256 of the content; the digest is taken to be collision-free, so it is
\* represented by the string it digests
_compute_content_hash(job) == Content(job)

StoredListings ==
  {[id |-> id, title |-> t, descriptions |-> d, company_name |-> c,
    external_url |-> u] :
     id \in {"job-1", "job-2"}, t \in Titles, d \in DescriptionLists,
     c \in CompanyNames, u \in {None, "https://x"}}

\* the column values upsert_job prepares
job_data(job, utcnow) ==
  [id |-> job.id, title |-> job.title,
   description |-> IF job.descriptions # <<>> THEN job.descriptions[1]
                   ELSE "",
   external_link |-> job.external_url, raw_data |-> job,
   content_hash |-> _compute_content_hash(job), date_updated |-> utcnow]

\* select(...).where(StoredJob.id == job.id): the positions of matching rows
RowsWithId(rows, id) == {i \in DOMAIN rows : rows[i].id = id}

\* JobRepository.upsert_job on the table `rows` at time `utcnow`
upsert_job(rows, job, utcnow) ==
  LET content_hash == _compute_content_hash(job)
      data == job_data(job, utcnow)
      found == RowsWithId(rows, job.id)
  IN IF found = {}
     THEN [rows |-> Append(rows, data @@ [date_added |-> utcnow]),
           is_new |-> TRUE, is_updated |-> FALSE]
     ELSE LET existing == rows[CHOOSE i \in found : \A j \in found : i <= j]
          IN IF existing.content_hash # content_hash
             THEN [rows |-> [i \in DOMAIN rows |->
                               IF i \in found
                               THEN data @@ [date_added |->
                                               rows[i].date_added]
                               ELSE rows[i]],
                   is_new |-> FALSE, is_updated |-> TRUE]
             ELSE [rows |-> rows, is_new |-> FALSE, is_updated |-> FALSE]

NoBatch == [active |-> FALSE, returned |-> FALSE, n |-> 0, seen |-> 0,
            inserted |-> 0, updated |-> 0, unchanged |-> 0]

NoUpsert == [called |-> FALSE, job |-> CHOOSE j \in StoredListings : TRUE,
             before |-> <<>>, is_new |-> FALSE, is_updated |-> FALSE]

\* a caller awaits upsert_job on its own
UpsertJob ==
  /\ input.fn = "JobRepository"
  /\ ~output.batch.active
  /\ output.utcnow <= MaxUpserts
  /\ \E job \in StoredListings :
       LET r == upsert_job(output.rows, job, output.utcnow)
       IN output' = [output EXCEPT
            !.rows = r.rows, !.utcnow = @ + 1, !.batch = NoBatch,
            !.last = [called |-> TRUE, job |-> job, before |-> output.rows,
                      is_new |-> r.is_new, is_updated |-> r.is_updated]]
  /\ UNCHANGED <<input, envVars, poolVars, progVars>>

\* upsert_jobs is called with a list of n listings
UpsertJobsBegin ==
  /\ input.fn = "JobRepository"
  /\ ~output.batch.active
  /\ \E n \in 0..MaxBatch :
       /\ output.utcnow + n <= MaxUpserts + 1
       /\ output' = [output EXCEPT !.batch = [NoBatch EXCEPT !.active = TRUE,
                                                            !.n = n],
                                   !.last = NoUpsert]
  /\ UNCHANGED <<input, envVars, poolVars, progVars>>

\* one iteration of the loop of upsert_jobs
UpsertJobsStep ==
  /\ input.fn = "JobRepository"
  /\ output.batch.active
  /\ output.batch.seen < output.batch.n
  /\ \E job \in StoredListings :
       LET r == upsert_job(output.rows, job, output.utcnow)
       IN output' = [output EXCEPT
            !.rows = r.rows, !.utcnow = @ + 1,
            !.batch.seen = @ + 1,
            !.batch.inserted = IF r.is_new THEN @ + 1 ELSE @,
            !.batch.updated = IF ~r.is_new /\ r.is_updated THEN @ + 1 ELSE @,
            !.batch.unchanged = IF ~r.is_new /\ ~r.is_updated THEN @ + 1
                                ELSE @,
            !.last = [called |-> TRUE, job |-> job, before |-> output.rows,
                      is_new |-> r.is_new, is_updated |-> r.is_updated]]
  /\ UNCHANGED <<input, envVars, poolVars, progVars>>

\* upsert_jobs returns its counts
UpsertJobsReturn ==
  /\ input.fn = "JobRepository"
  /\ output.batch.active
  /\ output.batch.seen = output.batch.n
  /\ output' = [output EXCEPT !.batch.active = FALSE,
                              !.batch.returned = TRUE]
  /\ UNCHANGED <<input, envVars, poolVars, progVars>>

InitStore ==
  /\ input = [fn |-> "JobRepository"]
  /\ output = [done |-> FALSE, rows |-> <<>>, utcnow |-> 1,
               batch |-> NoBatch, last |-> NoUpsert]
  /\ upstream = FacadeUpstream
  /\ mode = "stealth"
  /\ pool = NoPool
  /\ sess = [s \in SessionIds |-> NoSession]
  /\ InitCommon

NextStore ==
  UpsertJob \/ UpsertJobsBegin \/ UpsertJobsStep \/ UpsertJobsReturn

SpecStore == InitStore /\ [][NextStore]_vars

(***************************************************************************)
(* Properties of the session (checked under SpecSession)                   *)
(***************************************************************************)
IsWrc(t) == last[t].op = "with_retry_csrf"
IsRequest(t) == last[t].op = "request"

\* C1 as stated: after a first AuthenticationError with_retry_csrf always
\* ends having made exactly one refresh and exactly two requests, the second
\* AuthenticationError being the result; after a first success it made one
\* request and no refresh.
C1_AlwaysOneRetry ==
  \A t \in Tasks :
    (IsWrc(t) /\ last[t].done) =>
      /\ last[t].first = "AuthenticationError" =>
           /\ last[t].refreshes = 1
           /\ last[t].requests = 2
           /\ last[t].out.type = last[t].second
      /\ last[t].first = "ok" =>
           /\ last[t].refreshes = 0
           /\ last[t].requests = 1
           /\ last[t].out.type = "ok"

\* C1 (amended): with_retry_csrf never makes more than two requests nor more
\* than one refresh.  After a first AuthenticationError it has made exactly
\* one refresh; if the refresh returned, exactly one more request whose
\* outcome (a second AuthenticationError included) is the result; if the
\* refresh raised, that error is the result and no second request was made.
\* After a first success: one request, no refresh.
C1_RefreshOnceRetryOnce ==
  \A t \in Tasks :
    IsWrc(t) =>
      /\ last[t].requests <= 2
      /\ last[t].refreshes <= 1
      /\ last[t].done =>
           /\ last[t].first = "AuthenticationError" =>
                /\ last[t].refreshes = 1
                /\ last[t].refreshed = "ok" =>
                     /\ last[t].requests = 2
                     /\ last[t].out.type = last[t].second
                /\ last[t].refreshed # "ok" =>
                     /\ last[t].requests = 1
                     /\ last[t].out.type = last[t].refreshed
           /\ last[t].first = "ok" =>
                /\ last[t].refreshes = 0
                /\ last[t].requests = 1
                /\ last[t].out.type = "ok"

C1_Witness ==
  \E t \in Tasks :
    /\ IsWrc(t) /\ last[t].done
    /\ last[t].first = "AuthenticationError"
    /\ last[t].second = "AuthenticationError"
    /\ last[t].out.type = "AuthenticationError"
    /\ last[t].requests = 2 /\ last[t].refreshes = 1

\* C2: a get()/post() call that ends in NetworkError has made three
\* transport attempts.
C2_ThreeAttemptsBeforeNetworkError ==
  \A t \in Tasks :
    (IsRequest(t) /\ last[t].done /\ last[t].out.type = "NetworkError") =>
      last[t].attempts = 3

\* C3: an application-level error is never retried.  A get()/post() that
\* received a status >= 400 ends at once with the error made from that
\* response, a retry is only ever pending after a transport failure, and
\* with_retry_csrf whose first request failed with anything but
\* AuthenticationError ends with that error after one request and no
\* refresh.
C3_NoRetryOfApplicationErrors ==
  \A t \in Tasks :
    /\ (IsRequest(t) /\ last[t].resp.status >= 400) =>
         /\ last[t].done
         /\ stack[t] = <<>>
         /\ last[t].out = last[t].raised
         /\ last[t].requests = 1
    /\ (stack[t] # <<>> /\ Top(t).fn = "request" /\ Top(t).pc = "call"
          /\ Top(t).attempt > 0) => last[t].resp.status = 0
    /\ (IsWrc(t) /\ last[t].first \notin {None, "ok", "AuthenticationError"})
         => /\ last[t].refreshes = 0
            /\ last[t].requests = 1
            /\ last[t].done => last[t].out.type = last[t].first

C3_Witness ==
  \E t \in Tasks :
    /\ IsWrc(t) /\ last[t].done
    /\ last[t].first = "RateLimitError"
    /\ last[t].resp.status = 429
    /\ last[t].attempts = 1 /\ last[t].refreshes = 0

\* C6: a 429 response always gives RateLimitError; its retry_after is null
\* when the Retry-After header is absent and the number of seconds in the
\* header when it is present.
C6_RateLimitErrorOn429 ==
  \A t \in Tasks :
    last[t].resp.status = 429 =>
      /\ last[t].raised.type = "RateLimitError"
      /\ ~last[t].resp.retry_after.present =>
           last[t].raised.retry_after = NoneInt
      /\ (last[t].resp.retry_after.present
            /\ py_int(last[t].resp.retry_after.value).ok) =>
           last[t].raised.retry_after
             = py_int(last[t].resp.retry_after.value).value

\* C7: the translation by status is total and exclusive: 429 gives a
\* rate-limit error, 401/403 an authentication error, any other status
\* >= 400 a generic failure carrying the status, a status below 400 is
\* returned, and a transport failure gives NetworkError.
C7_TranslationByStatus ==
  \A t \in Tasks :
    LET status == last[t].resp.status
        raised == last[t].raised
    IN status >= 0 =>
         /\ status = 429 => raised.type = "RateLimitError"
         /\ status \in {401, 403} => raised.type = "AuthenticationError"
         /\ (status >= 400 /\ status \notin {401, 403, 429}) =>
              (raised.type = "httpx.HTTPStatusError"
                 /\ raised.status = status)
         /\ (status > 0 /\ status < 400) =>
              (raised.type = "ok" /\ raised.status = status)
         /\ status = 0 => raised.type = "NetworkError"

\* C8: in aggressive mode with a proxy pool, once a 429 has been handled the
\* session's current proxy has a cooldown expiry recorded in the pool.
C8_CooldownOn429 ==
  \A t \in Tasks :
    (mode = "aggressive" /\ pool.present /\ last[t].resp.status = 429) =>
      /\ last[t].proxy # None
      /\ pool.cooldown[last[t].proxy] # NoneInt

\* C12: once close() has returned on a session (its transport is closed and
\* it holds no client), a later get(), post() or refresh_csrf_token() on
\* that session opens no new transport and sends no request.
C12_NoUseAfterClose ==
  [][\A t \in Tasks :
       (/\ stack[t] # <<>>
        /\ Top(t).fn \in {"request", "refresh"}
        /\ sess[Top(t).sid].client = 0
        /\ \E i \in DOMAIN transports :
             transports[i].sid = Top(t).sid /\ ~transports[i].open)
       => /\ transports' = transports
          /\ last'[t].attempts = last[t].attempts
          /\ last'[t].refreshes = last[t].refreshes]_vars

\* C13: a request on the wire carries X-XSRF-TOKEN equal to the token the
\* session holds exactly when it is a POST with include_csrf and the session
\* holds a token; a GET, a POST without include_csrf and a POST sent while
\* no token is held carry no such header.  The second POST of
\* with_retry_csrf therefore carries the token the refresh stored.
C13_CsrfHeaderOnPost ==
  \A t \in Tasks :
    At(t, "request", "await") =>
      LET f     == Top(t)
          token == sess[f.sid].csrf_token
      IN IF f.method = "POST" /\ f.include_csrf /\ token # None
         THEN last[t].xsrf = token
         ELSE last[t].xsrf = None

C13_Witness ==
  \E t \in Tasks :
    /\ IsWrc(t) /\ At(t, "request", "await")
    /\ last[t].first = "AuthenticationError"
    /\ last[t].refreshed = "ok"
    /\ last[t].requests = 2
    /\ Top(t).method = "POST" /\ Top(t).include_csrf
    /\ last[t].xsrf = "t2"
    /\ sess[Top(t).sid].csrf_token = "t2"

C30_NoLeakedTransport ==
  /\ \A i \in DOMAIN transports :
       transports[i].open => sess[transports[i].sid].client = i
  /\ \A t \in Tasks :
       (last[t].op = "close" /\ last[t].done) => last[t].out.type = "ok"

C10_GetProxyTotal ==
  got.called =>
    /\ ~got.raised
    /\ pool.proxies = <<>> => got.proxy = None
    /\ pool.proxies # <<>> => got.proxy \in Range(pool.proxies)
    /\ got.all_cooling => got.proxy = pool.proxies[1]

C10_Witness ==
  /\ got.called /\ got.all_cooling
  /\ Len(pool.proxies) = 2
  /\ pool.proxies[1] # pool.proxies[2]
  /\ pool.current_index = 1
  /\ got.proxy = pool.proxies[1]

\* C26: on a non-empty pool the cursor stays in [0, len(proxies)); get_proxy
\* returns the first proxy at or after the cursor, cyclically, that has no
\* unexpired cooldown and leaves the cursor just past it; a proxy with an
\* unexpired cooldown is returned only when every proxy is cooling down, and
\* then the cursor ends where it started; with no cooldown recorded, the
\* first len(proxies) calls return the proxies once each in list order.
C26_RoundRobin ==
  (pool.present /\ pool.proxies # <<>>) =>
    LET n == Len(pool.proxies)
        At0(i) == pool.proxies[(i % n) + 1]
        Free(i) == \/ got.cooldown_before[At0(i)] = NoneInt
                   \/ got.cooldown_before[At0(i)] < got.time
        offsets == {d \in 0..(n - 1) : Free(got.index_before + d)}
    IN /\ pool.current_index \in 0..(n - 1)
       /\ (got.called /\ offsets # {}) =>
            \E d \in offsets :
              /\ \A e \in offsets : d <= e
              /\ got.proxy = At0(got.index_before + d)
              /\ pool.current_index = (got.index_before + d + 1) % n
       /\ (got.called /\ offsets = {}) =>
            /\ got.proxy = pool.proxies[1]
            /\ pool.current_index = got.index_before
       /\ (/\ \A q \in ProxyNames : pool.cooldown[q] = NoneInt
           /\ Len(got.run) = n) => got.run = pool.proxies

C26_Witness ==
  /\ got.called
  /\ pool.proxies = <<"p1", "p2">>
  /\ got.index_before = 1
  /\ got.cooldown_before["p2"] >= got.time
  /\ got.cooldown_before["p1"] = NoneInt
  /\ got.proxy = "p1"
  /\ pool.current_index = 1
  /\ Len(got.run) = 2

(***************************************************************************)
(* Properties of the facade (checked under SpecFacade)                     *)
(***************************************************************************)
\* C4: every failure of search() or get_details() reaches the caller as
\* ProviderError carrying the provider name and the underlying cause, and
\* health_check() raises nothing.
C4_OnlyProviderError ==
  \A t \in Tasks :
    last[t].done =>
      /\ (last[t].op \in {"search", "get_details"} /\ IsExc(last[t].out)) =>
           /\ last[t].out.type = "ProviderError"
           /\ last[t].out.provider = ProviderName
           /\ last[t].out.cause # None
      /\ last[t].op = "health_check" => ~IsExc(last[t].out)

\* C5: over the lifetime of the facade the CSRF bootstrap GET is issued at
\* most once.
C5_BootstrapAtMostOnce == bootstraps <= 1

\* C9: when the upstream answers the search POST with 429 and
\* Retry-After = n, search() delivers a rate-limit error with
\* retry_after = n and the REST layer answers 429 with Retry-After n.
C9_RetryAfterSurfaces ==
  \A t \in Tasks :
    (last[t].op = "search" /\ last[t].done /\ last[t].resp.status = 429
       /\ last[t].resp.retry_after.present
       /\ py_int(last[t].resp.retry_after.value).ok) =>
      LET n == py_int(last[t].resp.retry_after.value).value
      IN /\ IsInstance(last[t].out.type, "RateLimitError")
         /\ last[t].out.retry_after = n
         /\ last[t].http = 429
         /\ last[t].http_retry_after = n

\* C11: health_check never raises; it reports healthy when the root GET was
\* answered with 200, degraded when it was answered with any other status,
\* and unavailable only when the GET ended without a response.
C11_HealthByStatus ==
  \A t \in Tasks :
    (last[t].op = "health_check" /\ last[t].done) =>
      /\ ~IsExc(last[t].out)
      /\ last[t].resp.status = 200 => last[t].out.value = "healthy"
      /\ (last[t].resp.status > 0 /\ last[t].resp.status # 200) =>
           last[t].out.value = "degraded"
      /\ last[t].out.value = "unavailable" => last[t].resp.status <= 0

(***************************************************************************)
(* Properties of the search payload builder (checked under SpecPayload)    *)
(***************************************************************************)
\* C14: the built payload always has the key `permanent`: null for contract
\* type ANY, true for PERMANENT, false for TEMPORARY.
C14_PermanentKey ==
  output.done =>
    /\ "permanent" \in DOMAIN output.payload
    /\ input.request.contract_type = "any" =>
         output.payload.permanent = None
    /\ input.request.contract_type = "permanent" =>
         output.payload.permanent = "true"
    /\ input.request.contract_type = "temporary" =>
         output.payload.permanent = "false"

C14_Witness ==
  /\ output.done
  /\ input.request.contract_type = "temporary"
  /\ output.payload.permanent = "false"

\* C15: the payload has the key `radiusSearchRequest` exactly when the
\* criteria carry a radius search, and then geoPoint.lat, geoPoint.lon and
\* distance are the input's values.
C15_RadiusKey ==
  output.done =>
    LET radius == input.request.radius_search
    IN /\ ("radiusSearchRequest" \in DOMAIN output.payload) <=> radius.set
       /\ radius.set =>
            /\ output.payload.radiusSearchRequest.geoPoint.lat = radius.lat
            /\ output.payload.radiusSearchRequest.geoPoint.lon = radius.lon
            /\ output.payload.radiusSearchRequest.distance = radius.distance

C15_Witness ==
  /\ output.done
  /\ input.request.radius_search = RadiusSearchRequest(0, 0, 0)
  /\ "radiusSearchRequest" \in DOMAIN output.payload
  /\ output.payload.radiusSearchRequest.distance = 0

\* C16: for default criteria the payload is exactly workloadPercentageMin
\* 10, workloadPercentageMax 100, permanent null, companyName null,
\* onlineSince 60, displayRestricted false and four empty arrays, with no
\* radiusSearchRequest key.
C16_DefaultPayload ==
  (output.done /\ input.request = JobSearchRequest) =>
    /\ DOMAIN output.payload =
         {"workloadPercentageMin", "workloadPercentageMax", "permanent",
          "companyName", "onlineSince", "displayRestricted",
          "professionCodes", "keywords", "communalCodes", "cantonCodes"}
    /\ output.payload.workloadPercentageMin = 10
    /\ output.payload.workloadPercentageMax = 100
    /\ output.payload.permanent = None
    /\ output.payload.companyName = None
    /\ output.payload.onlineSince = 60
    /\ output.payload.displayRestricted = FALSE
    /\ output.payload.professionCodes = <<>>
    /\ output.payload.keywords = <<>>
    /\ output.payload.communalCodes = <<>>
    /\ output.payload.cantonCodes = <<>>

C16_Witness ==
  /\ output.done
  /\ input.request = JobSearchRequest
  /\ output.payload.onlineSince = 60

\* C17: communalCodes is the explicit list followed by what resolve_safe
\* gives for the location; with no location, or one that resolve rejects,
\* it is exactly the explicit list; building does not fail and leaves the
\* criteria as they were.
C17_CommunalCodes ==
  output.done =>
    LET explicit == input.request.communal_codes
        location == input.request.location
    IN /\ ~output.raised
       /\ output.request = input.request
       /\ output.payload.communalCodes =
            explicit \o (IF location = None THEN <<>>
                         ELSE resolve_safe(location).codes)
       /\ (location = None \/ resolve(location).raised) =>
            output.payload.communalCodes = explicit

C17_Witness ==
  /\ output.done
  /\ input.request.communal_codes = <<"351">>
  /\ input.request.location = " ZURICH "
  /\ output.payload.communalCodes = <<"351", "261">>

\* C18: every language-skill requirement of the criteria is carried in the
\* payload: some key of the payload other than the ten filter keys and
\* radiusSearchRequest holds one entry {languageIsoCode, spokenLevel?,
\* writtenLevel?} per requirement.
C18_LanguageSkillsCarried ==
  (output.done /\ input.request.language_skills # <<>>) =>
    \E key \in DOMAIN output.payload \
                 {"workloadPercentageMin", "workloadPercentageMax",
                  "permanent", "companyName", "onlineSince",
                  "displayRestricted", "professionCodes", "keywords",
                  "communalCodes", "cantonCodes", "radiusSearchRequest"} :
      output.payload[key] = LanguageSkillEntries(input.request)

(***************************************************************************)
(* Properties of the response transformer (checked under SpecTransform)    *)
(***************************************************************************)
\* C19: a raw record without location, company and employment, whose other
\* keys are absent or well-formed, transforms without raising: city "",
\* country code "CH", workload 100/100, permanent; occupations, language
\* skills and descriptions are empty when the record has none, and contact,
\* application and publication are null when the record has none.
C19_MissingSectionsDefault ==
  (/\ output.done /\ input.fn = "_transform_job"
   /\ input.job.jobContent # "null"
   /\ \A key \in {"location", "company", "employment"} :
        ContentKind(input.job, key) = "absent"
   /\ \A key \in {"jobDescriptions", "occupations", "languageSkills"} :
        ContentKind(input.job, key) # "null"
   /\ input.job.createdTime # "1700000000"
   /\ input.job.numberOfJobs # Infinity) =>
     LET job     == input.job
         listing == output.listing
     IN /\ listing.raised = None
        /\ listing.city = "" /\ listing.country_code = "CH"
        /\ listing.workload_min = 100 /\ listing.workload_max = 100
        /\ listing.is_permanent
        /\ ~listing.coordinates.set
        /\ ContentKind(job, "jobDescriptions") = "absent" =>
             listing.descriptions = <<>>
        /\ ContentKind(job, "occupations") = "absent" =>
             listing.occupations = <<>>
        /\ ContentKind(job, "languageSkills") = "absent" =>
             listing.language_skills = <<>>
        /\ ContentKind(job, "publicContact") = "absent" =>
             listing.contact = None
        /\ ContentKind(job, "applyChannel") = "absent" =>
             listing.application = None
        /\ job.publication = "absent" => listing.publication = None

C19_Witness ==
  /\ output.done /\ input.fn = "_transform_job"
  /\ input.job.jobContent = "object"
  /\ input.job.location = "absent" /\ input.job.company = "absent"
  /\ input.job.employment = "absent"
  /\ input.job.occupations = "absent" /\ input.job.publication = "absent"
  /\ output.listing.raised = None
  /\ output.listing.workload_max = 100
  /\ output.listing.occupations = <<>>
  /\ output.listing.publication = None

\* C20: search() returns one listing per upstream record, whatever
\* substructure of a record is absent or null and whatever timestamp or
\* numeric field is malformed.
C20_BatchSurvives ==
  (output.done /\ input.fn = "search") =>
    /\ output.raised = None
    /\ Len(output.items) = Len(input.jobs)

\* C29: a record whose only irregularities are in its location's
\* coordinates transforms without raising, and the listing has coordinates
\* exactly when the location carries lat and lon and both are numeric, the
\* value 0 included; then they are the numbers the record gives.
C29_CoordinatesWhenNumeric ==
  (/\ output.done /\ input.fn = "_transform_job"
   /\ input.job = [FullRecord EXCEPT
                     !.location = input.job.location,
                     !.coordinates = input.job.coordinates,
                     !.lat = input.job.lat,
                     !.numberOfJobs = GoodRest.number]) =>
    LET job     == input.job
        listing == output.listing
        Numeric(v) == \/ v.kind = "number"
                      \/ v.kind = "string" /\ py_int(v.s).ok
        carried == /\ job.location = "object"
                   /\ job.coordinates = "object"
                   /\ Numeric(job.lat) /\ Numeric(job.lon)
    IN /\ listing.raised = None
       /\ listing.coordinates.set <=> carried
       /\ carried => /\ listing.coordinates.lat = py_float(job.lat).value
                     /\ listing.coordinates.lon = py_float(job.lon).value

(***************************************************************************)
(* Properties of the location resolver (checked under SpecResolver)        *)
(***************************************************************************)
\* C21: resolve_safe never raises; it returns the list resolve returns for
\* the same text when resolve succeeds and the empty list when resolve
\* fails with LocationNotFoundError; that error carries the text it was
\* given, unchanged, and only resolve raises it.
C21_ResolveSafeTotal ==
  \A i \in DOMAIN output.calls :
    LET call == output.calls[i]
    IN /\ call.fn = "resolve_safe" =>
            /\ ~call.result.raised
            /\ call.result.codes =
                 (IF resolve(call.text).raised THEN <<>>
                  ELSE resolve(call.text).codes)
       /\ call.result.raised =>
            /\ call.fn = "resolve"
            /\ call.result.text = call.text

C21_Witness ==
  /\ Len(output.calls) = 2
  /\ output.calls[1].fn = "resolve"
  /\ output.calls[1].text = " Atlantis "
  /\ output.calls[1].result.raised
  /\ output.calls[1].result.text = " Atlantis "
  /\ output.calls[2].fn = "resolve_safe"
  /\ output.calls[2].text = " Atlantis "
  /\ output.calls[2].result.codes = <<>>

C23_TotalPagesCeiling ==
  (output.done /\ output.raised = None) =>
    /\ output.page = input.request.page
    /\ output.page_size = input.request.page_size
    /\ output.total_count = 0 => output.total_pages = 0
    /\ output.total_count > 0 =>
         /\ (output.total_pages - 1) * output.page_size < output.total_count
         /\ output.total_count <= output.total_pages * output.page_size

C23_Witness ==
  /\ output.done /\ output.raised = None
  /\ output.total_count = 101
  /\ output.page_size = 20
  /\ output.total_pages = 6
  /\ output.page = 1

(***************************************************************************)
(* Properties of AI enrichment (checked under SpecEnrich)                  *)
(***************************************************************************)
\* C24: with AI processing requested, the route always returns the search
\* result, whatever the configured provider name and whatever each model
\* request does; when enrichment ran there is one processed job per listing
\* in input order, keyed by the listing's id, and a listing whose request or
\* parse failed gets its own title and first description back.
C24_EnrichmentNeverFailsSearch ==
  (input.fn = "search_jobs.ai_process" /\ output.done) =>
    /\ output.phase = "returned"
    /\ output.raised = None
    /\ output.enriched =>
         /\ Len(output.processed) = Len(input.items)
         /\ \A i \in DOMAIN input.items :
              /\ output.processed[i].original_id = input.items[i].id
              /\ EnrichFailed(input.items[i], output.answers[i]) =>
                   /\ output.processed[i].title_en = input.items[i].title
                   /\ output.processed[i].description_en =
                        FirstDescription(input.items[i])

====
